---- MODULE Spec2Model ----
(***************************************************************************)
(* Model of the notebook pytorch_torchvision_neo.ipynb: the submission of  *)
(* a Neo compilation job, the polling loop that waits for it, and the      *)
(* hosting calls that consume compiled_model_path.  The remote service is  *)
(* the environment: it owns the job's status and artifact location and is  *)
(* trusted verbatim by the loop.                                           *)
(***************************************************************************)
EXTENDS Integers, Sequences, FiniteSets, TLC

\* ---------------------------------------------------------------- bounds
\* Largest number of describe_compilation_job calls recorded in the history.
MaxPolls == 3

\* ------------------------------------------------------ program constants
\* time.sleep(30)
PollInterval == 30

\* name_from_base('TorchVision-ResNet18-Neo')
compilation_job_name == "TorchVision-ResNet18-Neo"

\* 's3://{}/{}/output'.format(bucket, compilation_job_name)
OutputLocation == "s3://bucket/TorchVision-ResNet18-Neo/output"

\* Values the service can report in CompilationJobStatus.  The loop only
\* names COMPLETED and FAILED; every other value is opaque to it.
StatusValues == {"STARTING", "INPROGRESS", "COMPLETED", "FAILED", "STOPPED"}

\* Values the service can report in ModelArtifacts.S3ModelArtifacts.
Locators == {"s3://bucket/TorchVision-ResNet18-Neo/output/model-ml_c5.tar.gz",
             "s3://bucket/TorchVision-ResNet18-Neo/output/model-ml_c5-1.tar.gz"}

NoJob == [CompilationJobStatus |-> "NONE", S3ModelArtifacts |-> "NONE"]
NoError == [type |-> "none", args |-> <<>>, at |-> "none"]
NoResponse == [kind |-> "none"]

VARIABLES
    pc,                  \* the statement the notebook run is at
    job,                 \* the remote job: its status and artifact location
    response,            \* the notebook variable `response`
    compiled_model_path, \* the notebook variable `compiled_model_path`
    error,               \* the exception that ended the run, if any
    log                  \* history of the service calls and sleeps issued

vars == <<pc, job, response, compiled_model_path, error, log>>

\* ------------------------------------------------------------- helpers
\* The history keeps the first MaxPolls queries of a run in full; the first
\* query beyond that is replaced by a truncation mark and nothing is kept
\* after the mark.
Truncated == [call |-> "truncated"]

Record(e) ==
    IF log # <<>> /\ log[Len(log)] = Truncated THEN log
    ELSE IF e.call = "describe_compilation_job"
            /\ Cardinality({i \in DOMAIN log : log[i].call = e.call}) = MaxPolls
         THEN Append(log, Truncated)
         ELSE Append(log, e)

\* The arguments of an exception are Python values: strings and dicts.
PyStr(x) == [str |-> x]
PyDict(x) == [dict |-> x]
Carries(err, value) == \E i \in DOMAIN err.args : err.args[i] = value

\* An exception raised by a boto3 call (no try/except anywhere in the notebook).
ClientError(where) == [type |-> "ClientError", args |-> <<>>, at |-> where]

\* The response of describe_compilation_job for the job as it is now.
DescribeResponse ==
    [kind |-> "describe",
     CompilationJobStatus |-> job.CompilationJobStatus,
     S3ModelArtifacts |-> job.S3ModelArtifacts]

Init ==
    /\ pc = "create_compilation_job"
    /\ job = NoJob
    /\ response = NoResponse
    /\ compiled_model_path = OutputLocation
    /\ error = NoError
    /\ log = <<>>

\* ------------------------------------------------------------- remote
\* The service moves the job to any status; no legality is checked locally.
RemoteTransition(s, a) ==
    /\ job # NoJob
    /\ job' = [CompilationJobStatus |-> s, S3ModelArtifacts |-> a]
    /\ job' # job
    /\ UNCHANGED <<pc, response, compiled_model_path, error, log>>

\* ------------------------------------------------------------- notebook
\* response = sm_client.create_compilation_job(...); print(response)
CreateCompilationJob(a) ==
    /\ pc = "create_compilation_job"
    /\ job' = [CompilationJobStatus |-> "STARTING", S3ModelArtifacts |-> a]
    /\ response' = [kind |-> "create_compilation_job"]
    /\ log' = Record([call |-> "create_compilation_job",
                      name |-> compilation_job_name,
                      S3OutputLocation |-> compiled_model_path])
    /\ pc' = "describe_compilation_job"
    /\ UNCHANGED <<compiled_model_path, error>>

\* create_compilation_job raises: the cell stops before the loop.
CreateCompilationJobError ==
    /\ pc = "create_compilation_job"
    /\ error' = ClientError("create_compilation_job")
    /\ pc' = "raised"
    /\ UNCHANGED <<job, response, compiled_model_path, log>>

\* Variant of DescribeCompilationJob that stores the artifact location of
\* every response in compiled_model_path as soon as it arrives.
DescribeCompilationJobEager ==
    /\ pc = "describe_compilation_job"
    /\ response' = DescribeResponse
    /\ compiled_model_path' = DescribeResponse.S3ModelArtifacts
    /\ log' = Record([call |-> "describe_compilation_job",
                      name |-> compilation_job_name,
                      result |-> DescribeResponse])
    /\ pc' = "check_status"
    /\ UNCHANGED <<job, error>>

\* response = sm_client.describe_compilation_job(CompilationJobName=...)
DescribeCompilationJob ==
    /\ pc = "describe_compilation_job"
    /\ response' = DescribeResponse
    /\ log' = Record([call |-> "describe_compilation_job",
                      name |-> compilation_job_name,
                      result |-> DescribeResponse])
    /\ pc' = "check_status"
    /\ UNCHANGED <<job, compiled_model_path, error>>

\* Variant of DescribeCompilationJobError that recovers locally: the fault
\* is taken for a job still in progress, so the loop sleeps and queries again.
DescribeCompilationJobErrorRetry ==
    /\ pc = "describe_compilation_job"
    /\ log' = Record([call |-> "describe_compilation_job",
                      name |-> compilation_job_name,
                      result |-> [kind |-> "error"]])
    /\ pc' = "check_status"
    /\ response' = [kind |-> "describe", CompilationJobStatus |-> "INPROGRESS",
                    S3ModelArtifacts |-> job.S3ModelArtifacts]
    /\ UNCHANGED <<job, compiled_model_path, error>>

\* describe_compilation_job raises: nothing catches it, the cell stops.
DescribeCompilationJobError ==
    /\ pc = "describe_compilation_job"
    /\ error' = ClientError("describe_compilation_job")
    /\ log' = Record([call |-> "describe_compilation_job",
                      name |-> compilation_job_name,
                      result |-> [kind |-> "error"]])
    /\ pc' = "raised"
    /\ UNCHANGED <<job, response, compiled_model_path>>

\* if response['CompilationJobStatus'] == 'COMPLETED': break
Break ==
    /\ pc = "check_status"
    /\ response.CompilationJobStatus = "COMPLETED"
    /\ pc' = "extract"
    /\ UNCHANGED <<job, response, compiled_model_path, error, log>>

\* Variant of RaiseCompilationFailed whose exception also carries the job
\* name and the response.
RaiseCompilationFailedWithDiagnostics ==
    /\ pc = "check_status"
    /\ response.CompilationJobStatus # "COMPLETED"
    /\ response.CompilationJobStatus = "FAILED"
    /\ error' = [type |-> "RuntimeError",
                 args |-> <<PyStr("Compilation failed"),
                            PyStr(compilation_job_name), PyDict(response)>>,
                 at |-> "check_status"]
    /\ pc' = "raised"
    /\ UNCHANGED <<job, response, compiled_model_path, log>>

\* Variant of RaiseCompilationFailed that treats FAILED as still running:
\* it sleeps and polls again.
RaiseCompilationFailedRetry ==
    /\ pc = "check_status"
    /\ response.CompilationJobStatus # "COMPLETED"
    /\ response.CompilationJobStatus = "FAILED"
    /\ log' = Record([call |-> "sleep", seconds |-> PollInterval])
    /\ pc' = "describe_compilation_job"
    /\ UNCHANGED <<job, response, compiled_model_path, error>>

\* elif response['CompilationJobStatus'] == 'FAILED':
\*     raise RuntimeError('Compilation failed')
RaiseCompilationFailed ==
    /\ pc = "check_status"
    /\ response.CompilationJobStatus # "COMPLETED"
    /\ response.CompilationJobStatus = "FAILED"
    /\ error' = [type |-> "RuntimeError", args |-> <<PyStr("Compilation failed")>>,
                 at |-> "check_status"]
    /\ pc' = "raised"
    /\ UNCHANGED <<job, response, compiled_model_path, log>>

\* Variant of Sleep with an attempt limit: after the second query that
\* finds the job still running it raises instead of waiting.
SleepWithAttemptLimit ==
    /\ pc = "check_status"
    /\ response.CompilationJobStatus # "COMPLETED"
    /\ response.CompilationJobStatus # "FAILED"
    /\ IF Len(SelectSeq(log, LAMBDA e : e.call = "sleep")) >= 1
       THEN /\ error' = [type |-> "TimeoutError", args |-> <<>>, at |-> "check_status"]
            /\ pc' = "raised"
            /\ log' = log
       ELSE /\ log' = Record([call |-> "sleep", seconds |-> PollInterval])
            /\ pc' = "describe_compilation_job"
            /\ error' = error
    /\ UNCHANGED <<job, response, compiled_model_path>>

\* Variant of Sleep that gives up on a job reported STOPPED, raising as for
\* FAILED.
SleepUnlessStopped ==
    /\ pc = "check_status"
    /\ response.CompilationJobStatus # "COMPLETED"
    /\ response.CompilationJobStatus # "FAILED"
    /\ IF response.CompilationJobStatus = "STOPPED"
       THEN /\ error' = [type |-> "RuntimeError",
                         args |-> <<PyStr("Compilation failed")>>,
                         at |-> "check_status"]
            /\ pc' = "raised"
            /\ log' = log
       ELSE /\ log' = Record([call |-> "sleep", seconds |-> PollInterval])
            /\ pc' = "describe_compilation_job"
            /\ error' = error
    /\ UNCHANGED <<job, response, compiled_model_path>>

\* Variant of Sleep that waits only while the job is reported INPROGRESS and
\* polls again at once for any other non-terminal status.
SleepOnlyInProgress ==
    /\ pc = "check_status"
    /\ response.CompilationJobStatus # "COMPLETED"
    /\ response.CompilationJobStatus # "FAILED"
    /\ log' = IF response.CompilationJobStatus = "INPROGRESS"
              THEN Record([call |-> "sleep", seconds |-> PollInterval])
              ELSE log
    /\ pc' = "describe_compilation_job"
    /\ UNCHANGED <<job, response, compiled_model_path, error>>

\* print('Compiling ...'); time.sleep(30)
Sleep ==
    /\ pc = "check_status"
    /\ response.CompilationJobStatus # "COMPLETED"
    /\ response.CompilationJobStatus # "FAILED"
    /\ log' = Record([call |-> "sleep", seconds |-> PollInterval])
    /\ pc' = "describe_compilation_job"
    /\ UNCHANGED <<job, response, compiled_model_path, error>>

\* Variant of Extract that reads the artifact location of the job as it is
\* now instead of the one in `response`.
ExtractFromJob ==
    /\ pc = "extract"
    /\ compiled_model_path' = job.S3ModelArtifacts
    /\ pc' = "create_model"
    /\ UNCHANGED <<job, response, error, log>>

\* print('Done!'); compiled_model_path = response['ModelArtifacts']['S3ModelArtifacts']
Extract ==
    /\ pc = "extract"
    /\ compiled_model_path' = response.S3ModelArtifacts
    /\ pc' = "create_model"
    /\ UNCHANGED <<job, response, error, log>>

\* The three hosting cells, run in order; each is one call that may raise.
NextCell(c) ==
    CASE c = "create_model" -> "create_endpoint_config"
      [] c = "create_endpoint_config" -> "create_endpoint"
      [] c = "create_endpoint" -> "done"

\* Variant of CreateModel that passes the output location given at
\* submission as ModelDataUrl.
CreateModelFromOutputLocation ==
    /\ pc = "create_model"
    /\ response' = [kind |-> "create_model"]
    /\ log' = Record([call |-> "create_model", ModelDataUrl |-> OutputLocation])
    /\ pc' = NextCell(pc)
    /\ UNCHANGED <<job, compiled_model_path, error>>

\* response = sm_client.create_model(..., 'ModelDataUrl': compiled_model_path, ...)
CreateModel ==
    /\ pc = "create_model"
    /\ response' = [kind |-> "create_model"]
    /\ log' = Record([call |-> "create_model", ModelDataUrl |-> compiled_model_path])
    /\ pc' = NextCell(pc)
    /\ UNCHANGED <<job, compiled_model_path, error>>

\* response = sm_client.create_endpoint_config(...)
CreateEndpointConfig ==
    /\ pc = "create_endpoint_config"
    /\ response' = [kind |-> "create_endpoint_config"]
    /\ log' = Record([call |-> "create_endpoint_config"])
    /\ pc' = NextCell(pc)
    /\ UNCHANGED <<job, compiled_model_path, error>>

\* response = sm_client.create_endpoint(...)
CreateEndpoint ==
    /\ pc = "create_endpoint"
    /\ response' = [kind |-> "create_endpoint"]
    /\ log' = Record([call |-> "create_endpoint"])
    /\ pc' = NextCell(pc)
    /\ UNCHANGED <<job, compiled_model_path, error>>

\* A hosting call raises: the run stops at that cell.
HostingError ==
    /\ pc \in {"create_model", "create_endpoint_config", "create_endpoint"}
    /\ error' = ClientError(pc)
    /\ pc' = "raised"
    /\ UNCHANGED <<job, response, compiled_model_path, log>>

\* ------------------------------------------------------ specifications
Remote == \E s \in StatusValues, a \in Locators : RemoteTransition(s, a)

\* The notebook run top to bottom: the statement at pc executes; an
\* exception ends the run (pc = "raised" enables nothing).
Notebook ==
    \/ \E a \in Locators : CreateCompilationJob(a)
    \/ CreateCompilationJobError
    \/ DescribeCompilationJob
    \/ DescribeCompilationJobError
    \/ Break
    \/ RaiseCompilationFailed
    \/ Sleep
    \/ Extract
    \/ CreateModel
    \/ CreateEndpointConfig
    \/ CreateEndpoint
    \/ HostingError

\* The loop has no bound of its own.
LiveNext == Notebook \/ Remote

\* The notebook is a sequential program that keeps running: whichever
\* statement is next eventually executes.  Nothing is assumed of the remote.
LiveSpec == Init /\ [][LiveNext]_vars /\ WF_vars(Notebook)

\* Bounded exploration for the properties of finite runs: a run is followed
\* for as long as its history is complete, that is up to MaxPolls queries.
NumQueries == Len(SelectSeq(log, LAMBDA e : e.call = "describe_compilation_job"))

BoundedDescribeCompilationJob ==
    NumQueries < MaxPolls /\ DescribeCompilationJob

BoundedDescribeCompilationJobError ==
    NumQueries < MaxPolls /\ DescribeCompilationJobError

Next ==
    \/ \E a \in Locators : CreateCompilationJob(a)
    \/ CreateCompilationJobError
    \/ BoundedDescribeCompilationJob
    \/ BoundedDescribeCompilationJobError
    \/ Break
    \/ RaiseCompilationFailed
    \/ Sleep
    \/ Extract
    \/ CreateModel
    \/ CreateEndpointConfig
    \/ CreateEndpoint
    \/ HostingError
    \/ Remote

Spec == Init /\ [][Next]_vars

\* --------------------------------------------------------- waiter state
\* The state of the wait, read off the position of the run: NONE before
\* the loop is entered, WAITING inside the loop, SUCCEEDED once the loop was
\* left by break, FAILED once it was left by raise RuntimeError, ERRORED
\* once it was left by an exception of describe_compilation_job.
WaiterState ==
    CASE pc = "create_compilation_job" -> "NONE"
      [] pc \in {"describe_compilation_job", "check_status"} -> "WAITING"
      [] pc = "raised" /\ error.at = "create_compilation_job" -> "NONE"
      [] pc = "raised" /\ error.at = "describe_compilation_job" -> "ERRORED"
      [] pc = "raised" /\ error.at = "check_status" -> "FAILED"
      [] OTHER -> "SUCCEEDED"

\* ------------------------------------------------- reading the history
IsQuery(e) == e.call = "describe_compilation_job"
IsSleep(e) == e.call = "sleep"
IsPoll(e) == IsQuery(e) \/ IsSleep(e)
IsObservation(e) == IsQuery(e) /\ e.result.kind = "describe"
IsHosting(e) == e.call \in {"create_model", "create_endpoint_config", "create_endpoint"}

Terminal(status) == status \in {"COMPLETED", "FAILED"}

\* The queries and sleeps issued, in order.
Polls == SelectSeq(log, IsPoll)
\* The responses of the queries that returned, in order.
Observations == SelectSeq(log, IsObservation)
LastObservation == Observations[Len(Observations)].result
NonTerminalCount ==
    Cardinality({i \in DOMAIN Observations :
                    ~Terminal(Observations[i].result.CompilationJobStatus)})

TypeOK ==
    /\ pc \in {"create_compilation_job", "describe_compilation_job", "check_status",
               "extract", "create_model", "create_endpoint_config",
               "create_endpoint", "done", "raised"}
    /\ compiled_model_path \in Locators \cup {OutputLocation}
    /\ Len(log) <= 2 * MaxPolls + 4
    /\ WaiterState \in {"NONE", "WAITING", "SUCCEEDED", "FAILED", "ERRORED"}

\* ------------------------------------------------------------------ C1
\* C1: once a query has observed COMPLETED the loop is left normally (no
\* exception of the loop ends the run), and after the extraction
\* compiled_model_path is the S3ModelArtifacts of the last query response,
\* the one in which COMPLETED was observed.
C1_ResultFromFinalResponse ==
    (Observations # <<>> /\ LastObservation.CompilationJobStatus = "COMPLETED")
        => /\ \A i \in 1..(Len(Observations) - 1) :
                  ~Terminal(Observations[i].result.CompilationJobStatus)
           /\ pc = "check_status" \/ WaiterState = "SUCCEEDED"
           /\ pc \notin {"check_status", "extract"}
                  => compiled_model_path = LastObservation.S3ModelArtifacts

C1_Witness ==
    /\ pc = "create_model"
    /\ Len(Observations) = 3
    /\ Observations[2].result.S3ModelArtifacts # LastObservation.S3ModelArtifacts
    /\ job.S3ModelArtifacts # LastObservation.S3ModelArtifacts
    /\ compiled_model_path = LastObservation.S3ModelArtifacts

\* ------------------------------------------------------------------ C2
\* C2: an observation of FAILED is the last thing the wait does: the run is
\* at the status check or has raised RuntimeError from it, and no query, no
\* sleep and no other call follows that observation in the history.
C2_FailedIsAbsorbing ==
    \A i \in DOMAIN log :
        (IsObservation(log[i]) /\ log[i].result.CompilationJobStatus = "FAILED")
            => /\ i = Len(log)
               /\ pc = "check_status" \/ WaiterState = "FAILED"
               /\ WaiterState = "FAILED" => error.type = "RuntimeError"

C2_Witness ==
    /\ WaiterState = "FAILED"
    /\ Len(Observations) = 2
    /\ Observations[1].result.CompilationJobStatus = "INPROGRESS"
    /\ LastObservation.CompilationJobStatus = "FAILED"
    /\ job.CompilationJobStatus = "COMPLETED"

\* ------------------------------------------------------------------ C3
\* C3: queries and sleeps alternate, starting with a query; every sleep is
\* of PollInterval seconds and follows a non-terminal observation; a
\* terminal observation is followed by nothing; whenever the next statement
\* is a query every earlier observation has had its sleep; and once k
\* non-terminal observations were followed by a terminal one, k + 1 queries
\* and k sleeps of PollInterval have been issued.
C3_QueriesAndWaits ==
    /\ \A i \in DOMAIN Polls :
          /\ i % 2 = 1 => IsQuery(Polls[i])
          /\ i % 2 = 0 =>
                /\ IsSleep(Polls[i])
                /\ Polls[i].seconds = PollInterval
                /\ IsObservation(Polls[i - 1])
                /\ ~Terminal(Polls[i - 1].result.CompilationJobStatus)
          /\ (IsObservation(Polls[i])
                /\ Terminal(Polls[i].result.CompilationJobStatus)) => i = Len(Polls)
    /\ pc = "describe_compilation_job" => Len(Polls) % 2 = 0
    /\ (Observations # <<>> /\ Terminal(LastObservation.CompilationJobStatus))
          => /\ Len(SelectSeq(log, IsQuery)) = NonTerminalCount + 1
             /\ Len(SelectSeq(log, IsSleep)) = NonTerminalCount
             /\ Len(Observations) = NonTerminalCount + 1

C3_Witness ==
    /\ pc = "create_model"
    /\ Len(SelectSeq(log, IsQuery)) = 3
    /\ Len(SelectSeq(log, IsSleep)) = 2
    /\ Observations[1].result.CompilationJobStatus = "INPROGRESS"
    /\ Observations[2].result.CompilationJobStatus = "INPROGRESS"
    /\ LastObservation.CompilationJobStatus = "COMPLETED"

\* ------------------------------------------------------------------ C7
\* C7: a query that raises ends the run at once with that exception: it is
\* the last entry of the history, so no retry query and no sleep follow it.
C7_QueryErrorSurfaces ==
    \A i \in DOMAIN log :
        (IsQuery(log[i]) /\ log[i].result.kind = "error")
            => /\ i = Len(log)
               /\ pc = "raised"
               /\ error = ClientError("describe_compilation_job")

C7_Witness ==
    /\ pc = "raised"
    /\ error = ClientError("describe_compilation_job")
    /\ Len(Observations) = 2
    /\ Len(SelectSeq(log, IsSleep)) = 2
    /\ log[Len(log)].result.kind = "error"

\* ------------------------------------------------------------------ C6
\* C6 as stated: the exception raised on an observation of FAILED carries
\* the job name and the last query response.
C6_ErrorCarriesDiagnostics ==
    WaiterState = "FAILED"
        => /\ Carries(error, PyStr(compilation_job_name))
           /\ Carries(error, PyDict(response))

\* C6 as amended: the exception raised on an observation of FAILED is a
\* RuntimeError whose only argument is the message 'Compilation failed'; it
\* carries neither the job name nor the response, and the FAILED response
\* of the last query is left in the variable `response`.
C6_ErrorIsBareMessage ==
    WaiterState = "FAILED"
        => /\ error.type = "RuntimeError"
           /\ error.args = <<PyStr("Compilation failed")>>
           /\ ~Carries(error, PyStr(compilation_job_name))
           /\ ~Carries(error, PyDict(response))
           /\ response = LastObservation
           /\ response.CompilationJobStatus = "FAILED"

C6_Witness ==
    /\ WaiterState = "FAILED"
    /\ Len(Observations) = 3
    /\ response.CompilationJobStatus = "FAILED"
    /\ error.args # <<>>

\* ------------------------------------------------------------------ C8
\* What one step does to the waiter state on a status observation: from
\* WAITING, COMPLETED is the only way to SUCCEEDED and leads there, FAILED
\* is the only way to FAILED and leads there, any other status leaves the
\* waiter WAITING; SUCCEEDED and FAILED are never left.
C8_StatusStep ==
    /\ (WaiterState = "WAITING" /\ WaiterState' = "SUCCEEDED")
          => (pc = "check_status" /\ response.CompilationJobStatus = "COMPLETED")
    /\ (WaiterState = "WAITING" /\ WaiterState' = "FAILED")
          => (pc = "check_status" /\ response.CompilationJobStatus = "FAILED")
    /\ (pc = "check_status" /\ pc' # pc)
          => WaiterState' =
                CASE response.CompilationJobStatus = "COMPLETED" -> "SUCCEEDED"
                  [] response.CompilationJobStatus = "FAILED" -> "FAILED"
                  [] OTHER -> "WAITING"
    /\ WaiterState \in {"SUCCEEDED", "FAILED"} => WaiterState' = WaiterState

\* C8 as stated: once the loop is entered the waiter state is always one of
\* WAITING, SUCCEEDED, FAILED, and it moves on status observations only, as
\* C8_StatusStep says.
C8_ThreeStates ==
    /\ [](WaiterState # "NONE" => WaiterState \in {"WAITING", "SUCCEEDED", "FAILED"})
    /\ [][C8_StatusStep]_vars

\* C8 as amended: once the loop is entered the waiter state is one of
\* WAITING, SUCCEEDED, FAILED or ERRORED; it moves on status observations as
\* C8_StatusStep says; ERRORED is entered only from WAITING by a query that
\* raises, whatever the job's status, and is never left.
C8_FourStates ==
    /\ [](WaiterState # "NONE"
            => WaiterState \in {"WAITING", "SUCCEEDED", "FAILED", "ERRORED"})
    /\ [][/\ C8_StatusStep
          /\ (WaiterState # "ERRORED" /\ WaiterState' = "ERRORED")
                => /\ pc = "describe_compilation_job"
                   /\ error' = ClientError("describe_compilation_job")
          /\ WaiterState = "ERRORED" => WaiterState' = "ERRORED"]_vars

C8_Witness ==
    /\ pc = "check_status"
    /\ response.CompilationJobStatus = "STOPPED"
    /\ Len(Observations) = 3
    /\ Observations[1].result.CompilationJobStatus = "INPROGRESS"
    /\ Observations[2].result.CompilationJobStatus = "STARTING"

\* ------------------------------------------------------------------ C9
\* C9: the job is submitted once, before the first query; a hosting call is
\* issued only when the waiter is SUCCEEDED, after a query that observed
\* COMPLETED; create_model is given the S3ModelArtifacts of the last query
\* response as ModelDataUrl, not the output location given at submission;
\* and a waiter that ended FAILED has issued no hosting call.
C9_HostingAfterSuccess ==
    /\ Len(SelectSeq(log, LAMBDA e : e.call = "create_compilation_job")) <= 1
    /\ \A i \in DOMAIN log :
          /\ IsQuery(log[i])
                => (i > 1 /\ log[1].call = "create_compilation_job")
          /\ IsHosting(log[i])
                => /\ WaiterState = "SUCCEEDED"
                   /\ \E j \in 1..(i - 1) :
                         /\ IsObservation(log[j])
                         /\ log[j].result.CompilationJobStatus = "COMPLETED"
                   /\ \A j \in (i + 1)..Len(log) : IsHosting(log[j])
          /\ log[i].call = "create_model"
                => /\ log[i].ModelDataUrl = LastObservation.S3ModelArtifacts
                   /\ log[i].ModelDataUrl # log[1].S3OutputLocation
    /\ WaiterState \in {"FAILED", "ERRORED", "NONE"}
          => \A i \in DOMAIN log : ~IsHosting(log[i])

C9_Witness ==
    /\ pc = "done"
    /\ Len(SelectSeq(log, IsHosting)) = 3
    /\ Len(Observations) = 2
    /\ Observations[1].result.S3ModelArtifacts # LastObservation.S3ModelArtifacts

\* ----------------------------------------------------------------- C10
\* C10: compiled_model_path is written by the extraction only: before the
\* loop, while WAITING, between break and the extraction, and after the
\* wait ended FAILED or with a query error it is still the output location
\* given at submission; it is a result locator only if the waiter is
\* SUCCEEDED.
C10_PathWrittenOnSuccessOnly ==
    /\ (WaiterState # "SUCCEEDED" \/ pc = "extract")
          => compiled_model_path = OutputLocation
    /\ compiled_model_path \in Locators => WaiterState = "SUCCEEDED"
    /\ \A i \in DOMAIN log :
          log[i].call = "create_compilation_job"
              => log[i].S3OutputLocation = OutputLocation

C10_Witness ==
    /\ WaiterState = "FAILED"
    /\ Len(Observations) = 2
    /\ Observations[1].result.S3ModelArtifacts \in Locators
    /\ compiled_model_path = OutputLocation

C10_WitnessQueryError ==
    /\ WaiterState = "ERRORED"
    /\ Len(Observations) = 2
    /\ compiled_model_path = OutputLocation

\* ------------------------------------------------------------- C4, C5
\* No call to the service raises.
NoFault == error.type # "ClientError"

\* The job settles in a status the service never leaves.
JobSettlesIn(status) == <>[](job.CompilationJobStatus = status)

\* C4 as stated: if no call to the service raises and the job settles in COMPLETED, FAILED
\* or STOPPED, the waiter eventually leaves WAITING.
C4_WaitEndsWhenJobSettles ==
    ([]NoFault /\ (JobSettlesIn("COMPLETED") \/ JobSettlesIn("FAILED")
                     \/ JobSettlesIn("STOPPED")))
        => <>(WaiterState \in {"SUCCEEDED", "FAILED"})

\* C5: if no call to the service raises and the job never shows COMPLETED or FAILED, the
\* waiter stays WAITING from the submission on and issues a query again and
\* again without end: no timeout, deadline or attempt limit ends the loop.
C5_NoLocalTimeout ==
    ([]NoFault /\ [](job.CompilationJobStatus \notin {"COMPLETED", "FAILED"}))
        => /\ [](WaiterState \in {"NONE", "WAITING"})
           /\ <>(WaiterState = "WAITING")
           /\ []<><<DescribeCompilationJob>>_vars

\* More queries than the history holds, none of them terminal.
C5_Witness ==
    /\ log # <<>> /\ log[Len(log)] = Truncated
    /\ Len(Observations) = MaxPolls
    /\ \A i \in DOMAIN Observations :
          ~Terminal(Observations[i].result.CompilationJobStatus)
    /\ pc = "check_status"
    /\ ~Terminal(response.CompilationJobStatus)
    /\ job.CompilationJobStatus = "STOPPED"
====
